---- MODULE Spec2Model ----
(***************************************************************************)
(* A model of pyalgotrade/strategy.py: the Position classes (Long/Short),  *)
(* the Strategy registries (active positions, order -> position index),    *)
(* the order notification dispatch and the run() loop.                     *)
(*                                                                         *)
(* The broker module (Order, MarketOrder, ExecuteIfFilled, Broker) and the *)
(* bar feed are collaborators of strategy.py; they are modelled by their   *)
(* contract: placeOrder accepts at once, onBars walks the orders pending   *)
(* at its start in placement order and notifies each terminal transition   *)
(* synchronously.                                                          *)
(*                                                                         *)
(* User code (the overridable hooks) is the environment: while a hook is   *)
(* running it may call enterLong, enterShort, exitPosition,                *)
(* setExitOnSessionClose and Order.cancel, any number of times.            *)
(***************************************************************************)
EXTENDS Integers, Sequences, FiniteSets, TLC

\* ------------------------------------------------------------------ bounds
MaxPositions == 1
MaxOrders == 3
MaxBatches == 3
MaxPrice == 3
MaxCommission == 1

\* Python's None for an order reference (Position.__exitOrder = None).
NoOrder == 0
\* None where a position is expected (a hook that carries no position).
NoPosition == NoOrder

Instruments == {"X"}
Quantities == {10}
\* The time in force the user's code enters with. A good-till-canceled order
\* can do nothing a day order cannot: the broker may fill or keep either, and
\* may also cancel a day order when the session closes.
GoodTillCanceled == {FALSE}
\* The values the user's code passes to setExitOnSessionClose. Positions start
\* with the flag off, and it is read only while there is no exit order.
ExitOnSessionClose == {TRUE}
Prices == 1..MaxPrice
Commissions == 0..MaxCommission

\* A batch of bars: the instruments present, each with its session-close flag.
BarsBatches == UNION {[S -> BOOLEAN] : S \in SUBSET Instruments}

VARIABLES
    orders,            \* Seq of order records; an order's identity is its index
    positions,         \* Seq of position records; identity is the index
    activePositions,   \* Strategy.__activePositions (a list of positions)
    orderToPosition,   \* Strategy.__orderToPosition (a dict order -> position)
    pending,           \* the broker's list of orders placed and not yet resolved
    toSettle,          \* the orders broker.onBars still has to walk in this batch
    pc,                \* where run() is: start, loop, broker, onBars, done, failed
    hook,              \* the user hook that is executing, if any
    bars,              \* the current batch (<<>> before the first one)
    batchNo,           \* number of batches the feed has yielded so far
    err,               \* the exception that ended run(), "" if none
    trace,             \* ghost: the hook invocations of run() and of the dispatch
    orderLog,          \* ghost: per order, what it was placed for
    lastCall,          \* ghost: the exitPosition call the user's code just made
    ret,               \* result of the last getResult()/getNetProfit() call
    rpc,               \* the call_and_retry_on_network_error frame of the worker
    wpc,               \* where Worker.run() is
    job,               \* Worker.run()'s local variable job
    wlog,              \* ghost: the calls Worker.run() made, in order
    networkErrors      \* ghost: the socket errors raised so far

\* The state of strategy.py, and the state of optimizer/worker.py.
strategyVars == <<orders, positions, activePositions, orderToPosition, pending,
                  toSettle, pc, hook, bars, batchNo, err, trace, orderLog,
                  lastCall, ret>>
workerVars == <<rpc, wpc, job, wlog, networkErrors>>

vars == <<orders, positions, activePositions, orderToPosition, pending, toSettle,
          pc, hook, bars, batchNo, err, trace, orderLog, lastCall, ret,
          rpc, wpc, job, wlog, networkErrors>>

\* ----------------------------------------------------------------- helpers
Range(s) == {s[i] : i \in DOMAIN s}

RECURSIVE RemoveFirst(_, _)
\* list.remove(x): the list without the first occurrence of x.
RemoveFirst(s, x) ==
    IF s = <<>> THEN <<>>
    ELSE IF Head(s) = x THEN Tail(s)
    ELSE <<Head(s)>> \o RemoveFirst(Tail(s), x)

NoHook == [name |-> "none", position |-> NoPosition]
NoCall == [op |-> "none", position |-> NoPosition, branch |-> "none"]
NoRet == [call |-> "none", position |-> NoPosition, kind |-> "none",
          error |-> "", value |-> <<>>]

\* ------------------------------------------------------------ broker.Order
isFilled(o) == o.state = "Filled"
isCanceled(o) == o.state = "Canceled"
isAccepted(o) == o.state = "Accepted"

\* broker.MarketOrder(action, instrument, quantity, goodTillCanceled, useClosingPrice),
\* already accepted by the broker it is placed with.
MarketOrder(action, instrument, quantity, goodTillCanceled, useClosingPrice) ==
    [state |-> "Accepted", action |-> action, instrument |-> instrument,
     quantity |-> quantity, goodTillCanceled |-> goodTillCanceled,
     useClosingPrice |-> useClosingPrice, gate |-> NoOrder, execInfo |-> <<>>]

\* broker.ExecuteIfFilled(order, gatingOrder): the order, gated on gatingOrder.
ExecuteIfFilled(order, gatingOrder) == [order EXCEPT !.gate = gatingOrder]

\* Order.cancel(): Accepted -> Canceled; nothing once Filled or Canceled.
cancel(o) == IF isAccepted(o) THEN [o EXCEPT !.state = "Canceled"] ELSE o

getPrice(o) == o.execInfo[1]
getCommission(o) == o.execInfo[2]

\* The state a strategy's bookkeeping lives in, threaded through the helpers.
State == [orders |-> orders, positions |-> positions, pending |-> pending,
          activePositions |-> activePositions, orderToPosition |-> orderToPosition,
          orderLog |-> orderLog]

\* Ghost: the position an order was placed for as an exit (NoPosition for an
\* entry order), whether that position's entry order was Filled then, and the
\* batch whose onBars hook placed the order (0: placed from elsewhere).
LogEntry(st, owner) ==
    [owner |-> owner,
     entryFilledAtPlacement |->
        IF owner = NoPosition THEN FALSE
        ELSE isFilled(st.orders[st.positions[owner].entryOrder]),
     onBarsBatch |-> IF hook.name = "onBars" THEN batchNo ELSE 0]

\* Broker.placeOrder(order): the order joins the broker's pending list.
placeOrder(st, order, owner) ==
    [st EXCEPT !.orders = Append(@, order),
               !.pending = Append(@, Len(st.orders) + 1),
               !.orderLog = Append(@, LogEntry(st, owner))]

\* --------------------------------------------------------------- Position
getEntryOrder(st, p) == st.positions[p].entryOrder
getExitOrder(st, p) == st.positions[p].exitOrder
getInstrument(st, p) == st.orders[getEntryOrder(st, p)].instrument
getQuantity(st, p) == st.orders[getEntryOrder(st, p)].quantity

setExitOrder(st, p, o) == [st EXCEPT !.positions[p].exitOrder = o]

\* Position.__init__ after LongPosition/ShortPosition.__init__ built the entry
\* order: the new position, and the entry order placed with the broker.
NewPosition(st, dir, entry) ==
    LET withPos == [st EXCEPT !.positions = Append(@,
                        [dir |-> dir, entryOrder |-> Len(st.orders) + 1,
                         exitOrder |-> NoOrder, exitOnSessionClose |-> FALSE])]
    IN placeOrder(withPos, entry, NoPosition)

LongPosition(st, instrument, quantity, goodTillCanceled) ==
    NewPosition(st, "Long", MarketOrder("BUY", instrument, quantity, goodTillCanceled, FALSE))

ShortPosition(st, instrument, quantity, goodTillCanceled) ==
    NewPosition(st, "Short", MarketOrder("SELL_SHORT", instrument, quantity, goodTillCanceled, FALSE))

\* Mutant: the exit order repeats the action of the entry order.
ExitActionSameSide(st, p) ==
    IF st.positions[p].dir = "Long" THEN "BUY" ELSE "SELL_SHORT"

ExitAction(st, p) == IF st.positions[p].dir = "Long" THEN "SELL" ELSE "BUY"

\* The assertion of closeImpl: no exit order, or a canceled one.
closeImplAssert(st, p) ==
    \/ getExitOrder(st, p) = NoOrder
    \/ isCanceled(st.orders[getExitOrder(st, p)])

\* LongPosition.closeImpl / ShortPosition.closeImpl (the assertion holds).
closeImpl(st, p) ==
    LET order == MarketOrder(ExitAction(st, p), getInstrument(st, p),
                             getQuantity(st, p), FALSE, FALSE)
        placed == placeOrder(st, order, p)
    IN setExitOrder(placed, p, Len(placed.orders))

\* Mutant: the session-close exit order is placed without its gate.
placeExitOnSessionCloseOrderUngated(st, p) ==
    LET order == MarketOrder(ExitAction(st, p), getInstrument(st, p),
                             getQuantity(st, p), FALSE, TRUE)
        placed == placeOrder(st, order, p)
    IN setExitOrder(placed, p, Len(placed.orders))

\* LongPosition/ShortPosition.placeExitOnSessionCloseOrder. Its assertion (no
\* exit order yet) is part of the condition of checkExitOnSessionClose, the
\* only caller.
placeExitOnSessionCloseOrder(st, p) ==
    LET order == ExecuteIfFilled(
                    MarketOrder(ExitAction(st, p), getInstrument(st, p),
                                getQuantity(st, p), FALSE, TRUE),
                    getEntryOrder(st, p))
        placed == placeOrder(st, order, p)
    IN setExitOrder(placed, p, Len(placed.orders))

\* Mutant: the session-close exit waits for the entry order to be Filled.
shouldExitOnSessionCloseOnceFilled(st, p, b) ==
    /\ st.positions[p].exitOnSessionClose
    /\ getExitOrder(st, p) = NoOrder
    /\ isFilled(st.orders[getEntryOrder(st, p)])
    /\ getInstrument(st, p) \in DOMAIN b
    /\ b[getInstrument(st, p)] = TRUE

\* Mutant: any bar of the instrument counts as the session close.
shouldExitOnAnyBar(st, p, b) ==
    /\ st.positions[p].exitOnSessionClose
    /\ getExitOrder(st, p) = NoOrder
    /\ getInstrument(st, p) \in DOMAIN b

\* The condition of Position.checkExitOnSessionClose; a missing bar raises
\* KeyError inside the try block, which is swallowed.
shouldExitOnSessionClose(st, p, b) ==
    /\ st.positions[p].exitOnSessionClose
    /\ getExitOrder(st, p) = NoOrder
    /\ getInstrument(st, p) \in DOMAIN b
    /\ b[getInstrument(st, p)] = TRUE

\* Position.checkExitOnSessionClose: the state after, and the order returned.
checkExitOnSessionClose(st, p, b) ==
    IF shouldExitOnSessionClose(st, p, b)
    THEN LET after == placeExitOnSessionCloseOrder(st, p)
         IN [st |-> after, ret |-> Len(after.orders)]
    ELSE [st |-> st, ret |-> NoOrder]

\* --------------------------------------------------------------- Strategy
\* Mutant: the position is appended whether or not it is in the list.
registerAlwaysAppends(st, p) ==
    LET entry == getEntryOrder(st, p)
        exit == getExitOrder(st, p)
        keys == {o \in {entry, exit} : o # NoOrder}
    IN [st EXCEPT
          !.activePositions = Append(@, p),
          !.orderToPosition =
              [o \in DOMAIN @ \cup keys |-> IF o \in keys THEN p ELSE @[o]]]

\* Strategy.__registerActivePosition.
registerActivePosition(st, p) ==
    LET entry == getEntryOrder(st, p)
        exit == getExitOrder(st, p)
        keys == {o \in {entry, exit} : o # NoOrder}
    IN [st EXCEPT
          !.activePositions = IF p \in Range(@) THEN @ ELSE Append(@, p),
          !.orderToPosition =
              [o \in DOMAIN @ \cup keys |-> IF o \in keys THEN p ELSE @[o]]]

\* Mutant: only the entry order is dropped from the index.
unregisterKeepsExitOrder(st, p) ==
    [st EXCEPT
       !.activePositions = RemoveFirst(@, p),
       !.orderToPosition = [o \in DOMAIN @ \ {getEntryOrder(st, p)} |-> @[o]]]

\* Strategy.__unregisterActivePosition, when list.remove finds the position.
unregisterActivePosition(st, p) ==
    LET gone == {o \in {getEntryOrder(st, p), getExitOrder(st, p)} : o # NoOrder}
    IN [st EXCEPT
          !.activePositions = RemoveFirst(@, p),
          !.orderToPosition = [o \in DOMAIN @ \ gone |-> @[o]]]

\* run() is inside a user hook.
InHook == pc \notin {"done", "failed"} /\ hook.name # "none"

\* The user's code may call the strategy: run() is inside a hook other than
\* onFinish. No batch follows onFinish, and a call made there leaves the
\* strategy as the same call made at the end of the last batch's onBars does.
UserCode == InHook /\ hook.name # "onFinish"

Commit(st) ==
    /\ orders' = st.orders
    /\ positions' = st.positions
    /\ pending' = st.pending
    /\ activePositions' = st.activePositions
    /\ orderToPosition' = st.orderToPosition
    /\ orderLog' = st.orderLog

\* An exception leaves the hook that is running, and run() with it.
Raise(e) == pc' = "failed" /\ err' = e /\ hook' = NoHook

\* Ghost: the call just made, when it is exitPosition, with the branch it took.
Called(op, p, branch) ==
    lastCall' = IF op = "exitPosition"
                THEN [op |-> op, position |-> p, branch |-> branch]
                ELSE NoCall

\* Strategy.enterLong.
EnterLong(instrument, quantity, goodTillCanceled) ==
    /\ UserCode
    /\ Len(positions) < MaxPositions
    /\ Len(orders) < MaxOrders
    /\ LET st == LongPosition(State, instrument, quantity, goodTillCanceled)
       IN Commit(registerActivePosition(st, Len(st.positions)))
    /\ Called("enterLong", Len(positions) + 1, "none")
    /\ UNCHANGED <<toSettle, pc, hook, bars, batchNo, err, trace, ret>>
    /\ UNCHANGED workerVars

\* Strategy.enterShort.
EnterShort(instrument, quantity, goodTillCanceled) ==
    /\ UserCode
    /\ Len(positions) < MaxPositions
    /\ Len(orders) < MaxOrders
    /\ LET st == ShortPosition(State, instrument, quantity, goodTillCanceled)
       IN Commit(registerActivePosition(st, Len(st.positions)))
    /\ Called("enterShort", Len(positions) + 1, "none")
    /\ UNCHANGED <<toSettle, pc, hook, bars, batchNo, err, trace, ret>>
    /\ UNCHANGED workerVars

\* Position.setExitOnSessionClose, called by the user's code.
SetExitOnSessionClose(p, exitOnSessionClose) ==
    /\ UserCode
    /\ p \in DOMAIN positions
    /\ positions[p].exitOnSessionClose # exitOnSessionClose
    /\ positions' = [positions EXCEPT ![p].exitOnSessionClose = exitOnSessionClose]
    /\ Called("setExitOnSessionClose", p, "none")
    /\ UNCHANGED <<orders, activePositions, orderToPosition, pending, toSettle,
                   pc, hook, bars, batchNo, err, trace, orderLog, ret>>
    /\ UNCHANGED workerVars

\* Mutant: the position is closed whether or not its entry order is Filled.
exitPositionBranchNoFilledCheck(st, p) ==
    IF /\ getExitOrder(st, p) # NoOrder
       /\ \/ isFilled(st.orders[getExitOrder(st, p)])
          \/ isAccepted(st.orders[getExitOrder(st, p)])
    THEN "noop"
    ELSE "close"

\* Mutant: no early return while an exit order is pending or filled.
exitPositionBranchNoPendingCheck(st, p) ==
    IF isFilled(st.orders[getEntryOrder(st, p)]) THEN "close" ELSE "cancelEntry"

\* The branch Strategy.exitPosition takes.
exitPositionBranch(st, p) ==
    IF /\ getExitOrder(st, p) # NoOrder
       /\ \/ isFilled(st.orders[getExitOrder(st, p)])
          \/ isAccepted(st.orders[getExitOrder(st, p)])
    THEN "noop"
    ELSE IF isFilled(st.orders[getEntryOrder(st, p)]) THEN "close"
    ELSE "cancelEntry"

\* Strategy.exitPosition.
ExitPosition(p) ==
    /\ UserCode
    /\ p \in DOMAIN positions
    /\ LET branch == exitPositionBranch(State, p)
       IN /\ branch = "close" => Len(orders) < MaxOrders
          /\ CASE branch = "noop" ->
                    /\ Commit(State)
                    /\ Called("exitPosition", p, branch)
                    /\ UNCHANGED <<pc, hook, err>>
               [] branch = "close" /\ closeImplAssert(State, p) ->
                    /\ Commit(registerActivePosition(closeImpl(State, p), p))
                    /\ Called("exitPosition", p, branch)
                    /\ UNCHANGED <<pc, hook, err>>
               [] branch = "close" /\ ~closeImplAssert(State, p) ->
                    /\ Commit(State)
                    /\ Called("exitPosition", p, "raise")
                    /\ Raise("AssertionError")
               [] OTHER ->
                    /\ Commit([State EXCEPT !.orders[getEntryOrder(State, p)] = cancel(@)])
                    /\ Called("exitPosition", p, branch)
                    /\ UNCHANGED <<pc, hook, err>>
    /\ UNCHANGED <<toSettle, bars, batchNo, trace, ret>>
    /\ UNCHANGED workerVars

\* Order.cancel() called by the user's code on an order of one of its positions.
CancelOrder(o) ==
    /\ UserCode
    /\ o \in DOMAIN orders
    /\ isAccepted(orders[o])
    /\ orders' = [orders EXCEPT ![o] = cancel(@)]
    /\ Called("cancel", NoPosition, "none")
    /\ UNCHANGED <<positions, activePositions, orderToPosition, pending, toSettle,
                   pc, hook, bars, batchNo, err, trace, orderLog, ret>>
    /\ UNCHANGED workerVars

\* ---------------------------------------------------------------- run loop
\* Mutant: the onBars hook runs before the broker settles the batch.
RunLoopBodyOnBarsFirst == <<"onBars", "broker">>

\* The two calls that follow __checkExitOnSessionClose in the loop body of run().
RunLoopBody == <<"broker", "onBars">>

StepAfter(step) ==
    LET i == CHOOSE k \in DOMAIN RunLoopBody : RunLoopBody[k] = step
    IN IF i = Len(RunLoopBody) THEN "loop" ELSE RunLoopBody[i + 1]

\* Control reaches `step` of run(), the broker holding the pending list pend
\* and the ghost counters being tr.
Goto(step, pend, tr) ==
    /\ pc' = step
    /\ CASE step = "broker" ->
              /\ toSettle' = pend
              /\ pending' = <<>>
              /\ hook' = NoHook
              /\ trace' = [tr EXCEPT !.brokerStarted = @ + 1]
         [] step = "onBars" ->
              /\ toSettle' = toSettle
              /\ pending' = pend
              /\ hook' = [name |-> "onBars", position |-> NoPosition]
              /\ trace' = [tr EXCEPT !.onBars = @ + 1]
         [] OTHER ->
              /\ toSettle' = toSettle
              /\ pending' = pend
              /\ hook' = NoHook
              /\ trace' = tr

\* run(), line 353: onStart() is invoked.
RunStart ==
    /\ pc = "start"
    /\ pc' = "loop"
    /\ hook' = [name |-> "onStart", position |-> NoPosition]
    /\ trace' = [trace EXCEPT !.onStart = @ + 1]
    /\ UNCHANGED <<orders, positions, activePositions, orderToPosition, pending,
                   toSettle, bars, batchNo, err, orderLog, lastCall, ret>>
    /\ UNCHANGED workerVars

RECURSIVE checkExitOnSessionCloseAll(_, _, _)
\* Strategy.__checkExitOnSessionClose over the positions ps (the active list).
checkExitOnSessionCloseAll(st, ps, b) ==
    IF ps = <<>> THEN st
    ELSE LET r == checkExitOnSessionClose(st, Head(ps), b)
             indexed == IF r.ret # NoOrder
                        THEN [r.st EXCEPT !.orderToPosition =
                                [o \in DOMAIN @ \cup {r.ret} |->
                                    IF o = r.ret THEN Head(ps) ELSE @[o]]]
                        ELSE r.st
         IN checkExitOnSessionCloseAll(indexed, Tail(ps), b)

\* run(), lines 355-357 and the call that follows: the feed yields the batch b.
RunNextBars(b) ==
    /\ pc = "loop" /\ hook = NoHook
    /\ batchNo < MaxBatches
    /\ LET st == checkExitOnSessionCloseAll(State, activePositions, b)
       IN /\ Len(st.orders) <= MaxOrders
          /\ orders' = st.orders
          /\ positions' = st.positions
          /\ activePositions' = st.activePositions
          /\ orderToPosition' = st.orderToPosition
          /\ orderLog' = st.orderLog
          /\ Goto(RunLoopBody[1], st.pending, trace)
    /\ bars' = b
    /\ batchNo' = batchNo + 1
    /\ UNCHANGED <<err, lastCall, ret>>
    /\ UNCHANGED workerVars

\* Mutant: run() returns without invoking onFinish.
RunFeedExhaustedNoFinish ==
    /\ pc = "loop" /\ hook = NoHook
    /\ IF batchNo > 0
       THEN pc' = "done" /\ UNCHANGED <<hook, err>>
       ELSE pc' = "failed" /\ err' = "Feed was empty" /\ hook' = NoHook
    /\ UNCHANGED <<orders, positions, activePositions, orderToPosition, pending,
                   toSettle, bars, batchNo, orderLog, ret, trace, lastCall>>
    /\ UNCHANGED workerVars

\* Mutant: onFinish is invoked whether or not the feed yielded a batch.
RunFeedExhaustedAlwaysFinish ==
    /\ pc = "loop" /\ hook = NoHook
    /\ pc' = "finish"
    /\ hook' = [name |-> "onFinish", position |-> NoPosition]
    /\ trace' = [trace EXCEPT !.onFinish = @ + 1, !.finishBars = batchNo]
    /\ UNCHANGED <<orders, positions, activePositions, orderToPosition, pending,
                   toSettle, bars, batchNo, orderLog, ret, err, lastCall>>
    /\ UNCHANGED workerVars

\* run(), lines 362-365: the feed is exhausted.
RunFeedExhausted ==
    /\ pc = "loop" /\ hook = NoHook
    /\ IF batchNo > 0
       THEN /\ pc' = "finish"
            /\ hook' = [name |-> "onFinish", position |-> NoPosition]
            /\ trace' = [trace EXCEPT !.onFinish = @ + 1, !.finishBars = batchNo]
            /\ UNCHANGED <<err, lastCall>>
       ELSE /\ Raise("Feed was empty")
            /\ UNCHANGED <<trace, lastCall>>
    /\ UNCHANGED <<orders, positions, activePositions, orderToPosition, pending,
                   toSettle, bars, batchNo, orderLog, ret>>
    /\ UNCHANGED workerVars

\* A user hook returns.
HookReturn ==
    /\ InHook
    /\ lastCall' = NoCall
    /\ CASE hook.name = "onBars" -> Goto(StepAfter("onBars"), pending, trace)
         [] hook.name = "onFinish" ->
              /\ pc' = "done" /\ hook' = NoHook
              /\ UNCHANGED <<pending, toSettle, trace>>
         [] OTHER ->
              /\ pc' = pc /\ hook' = NoHook
              /\ UNCHANGED <<pending, toSettle, trace>>
    /\ UNCHANGED <<orders, positions, activePositions, orderToPosition,
                   bars, batchNo, err, orderLog, ret>>
    /\ UNCHANGED workerVars

\* --------------------------------------------- order notification dispatch
Dispatch(name, position) ==
    /\ hook' = [name |-> name, position |-> position]
    /\ trace' = [trace EXCEPT !.hooksInvoked = @ \cup {<<name, position>>}]
    /\ pc' = pc
    /\ err' = err

\* The branch Strategy.__onOrderUpdate takes for `order`, the orders being ords.
onOrderUpdateBranch(order, ords) ==
    IF order \notin DOMAIN orderToPosition THEN "KeyError"
    ELSE LET position == positions[orderToPosition[order]]
         IN IF position.entryOrder = order
            THEN IF isFilled(ords[order]) THEN "onEnterOk"
                 ELSE IF isCanceled(ords[order]) THEN "onEnterCanceled"
                 ELSE "none"
            ELSE IF position.exitOrder = order
            THEN IF isFilled(ords[order]) THEN "onExitOk"
                 ELSE IF isCanceled(ords[order]) THEN "onExitCanceled"
                 ELSE "none"
            ELSE "AssertionError"

\* Mutant: a position whose entry order was canceled is not retired.
UnregisteringHooksExitOnly == {"onExitOk", "onExitCanceled"}

\* The hooks __onOrderUpdate invokes after retiring the position.
UnregisteringHooks == {"onEnterCanceled", "onExitOk", "onExitCanceled"}

\* Strategy.__onOrderUpdate(order), called by the broker; ords are the orders
\* after the broker's transition.
onOrderUpdate(order, ords) ==
    LET branch == onOrderUpdateBranch(order, ords)
        st == [State EXCEPT !.orders = ords]
    IN CASE branch \in {"KeyError", "AssertionError"} ->
              /\ pc' = "failed" /\ err' = branch /\ hook' = NoHook
              /\ UNCHANGED <<activePositions, orderToPosition, trace>>
         [] branch \in UnregisteringHooks ->
              LET position == orderToPosition[order]
              IN IF position \in Range(activePositions)
                 THEN /\ activePositions' =
                            unregisterActivePosition(st, position).activePositions
                      /\ orderToPosition' =
                            unregisterActivePosition(st, position).orderToPosition
                      /\ Dispatch(branch, position)
                 ELSE \* list.remove(x): x not in list
                      /\ pc' = "failed" /\ err' = "ValueError" /\ hook' = NoHook
                      /\ UNCHANGED <<activePositions, orderToPosition, trace>>
         [] branch = "onEnterOk" ->
              /\ Dispatch(branch, orderToPosition[order])
              /\ UNCHANGED <<activePositions, orderToPosition>>
         [] OTHER ->
              /\ UNCHANGED <<activePositions, orderToPosition, hook, pc, err, trace>>

\* ------------------------------------------------------------------ broker
\* The prices and commissions the broker fills at during a run.
FillPrices == {1}
FillCommissions == {0}

GateFilled(o) == o.gate = NoOrder \/ isFilled(orders[o.gate])
GateCanceled(o) == o.gate # NoOrder /\ isCanceled(orders[o.gate])
SessionCloses(o) == o.instrument \in DOMAIN bars /\ bars[o.instrument] = TRUE

\* What broker.onBars may do with a pending order against the current batch:
\* fill it (its instrument has a bar and its gate, if any, is Filled); cancel it
\* (its gate was canceled, or it is a day order and the session closes); keep
\* it pending; or, when cancel() was called on it, only report it.
Outcomes(o) ==
    IF isCanceled(o) THEN {"report"}
    ELSE IF GateCanceled(o) THEN {"cancel"}
    ELSE {"keep"}
         \cup (IF o.instrument \in DOMAIN bars /\ GateFilled(o) THEN {"fill"} ELSE {})
         \cup (IF ~o.goodTillCanceled /\ SessionCloses(o) THEN {"cancel"} ELSE {})

Resolve(o, outcome, price, commission) ==
    CASE outcome = "fill" ->
            [o EXCEPT !.state = "Filled", !.execInfo = <<price, commission>>]
      [] outcome = "cancel" -> cancel(o)
      [] OTHER -> o

\* One iteration of broker.onBars: the next pending order is resolved against
\* the batch and, when it reached Filled or Canceled, notified.
BrokerSettle(outcome, price, commission) ==
    /\ pc = "broker" /\ hook = NoHook
    /\ toSettle # <<>>
    /\ LET o == Head(toSettle)
           ords == [orders EXCEPT ![o] = Resolve(@, outcome, price, commission)]
       IN /\ outcome \in Outcomes(orders[o])
          /\ orders' = ords
          /\ toSettle' = Tail(toSettle)
          /\ IF isAccepted(ords[o])
             THEN /\ pending' = Append(pending, o)
                  /\ UNCHANGED <<activePositions, orderToPosition, hook, pc, err,
                                 orderLog, trace>>
             ELSE /\ pending' = pending
                  /\ orderLog' = orderLog
                  /\ onOrderUpdate(o, ords)
    /\ UNCHANGED <<positions, bars, batchNo, lastCall, ret>>
    /\ UNCHANGED workerVars

\* broker.onBars returns: every order pending at its start has been walked.
BrokerDone ==
    /\ pc = "broker" /\ hook = NoHook
    /\ toSettle = <<>>
    /\ Goto(StepAfter("broker"), pending, [trace EXCEPT !.brokerDone = @ + 1])
    /\ UNCHANGED <<orders, positions, activePositions, orderToPosition,
                   bars, batchNo, err, orderLog, lastCall, ret>>
    /\ UNCHANGED workerVars

\* ------------------------------------------------------ optimizer/worker.py
MaxRetryCount == 3
MaxJobs == 2
\* The socket errors the network raises in one run: enough to exhaust
\* MaxRetryCount retries and fail the unguarded call as well.
MaxNetworkErrors == MaxRetryCount + 1

\* The retry count Worker passes with each of its three remote calls.
WorkerRetryCount == 10
\* random.randint(1, 3)
SleepSeconds == 1..3
\* What one call of the remote function does: it returns, it raises
\* socket.error, or it raises another exception (xmlrpclib.Fault).
CallOutcomes == {"ok", "socket.error", "Fault"}

JobIds == {"j1", "j2"}
StrategyResults == {"r1", "r2"}
NoJob == "None"
NoResult == "None"

NoRpc == [function |-> "none", parameters |-> <<>>, n |-> 0, retryCount |-> 0,
          at |-> "none", outcomes |-> <<>>, sleeps |-> <<>>, exception |-> ""]

\* call_and_retry_on_network_error(function, parameters, retryCount): the frame
\* on entry. n keeps the argument; outcomes and sleeps record the calls of
\* function and of time.sleep made so far.
call_and_retry_on_network_error(function, parameters, retryCount) ==
    [function |-> function, parameters |-> parameters, n |-> retryCount,
     retryCount |-> retryCount, at |-> "call", outcomes |-> <<>>,
     sleeps |-> <<>>, exception |-> ""]

\* Mutant: the loop runs once more, when retryCount has reached zero.
GuardedInclusive(frame) == frame.retryCount >= 0

\* The condition of the while loop: the next call is made inside the try block.
Guarded(frame) == frame.retryCount > 0

\* One call of function, with its outcome: inside the loop socket.error is
\* caught (time.sleep follows) and every other exception propagates; after the
\* loop every exception propagates.
call_function(frame, outcome) ==
    LET called == [frame EXCEPT !.outcomes = Append(@, outcome)]
    IN IF Guarded(frame)
       THEN LET f == [called EXCEPT !.retryCount = @ - 1]
            IN CASE outcome = "ok" -> [f EXCEPT !.at = "returned"]
                 [] outcome = "socket.error" -> [f EXCEPT !.at = "sleep"]
                 [] OTHER -> [f EXCEPT !.at = "raised", !.exception = outcome]
       ELSE IF outcome = "ok" THEN [called EXCEPT !.at = "returned"]
            ELSE [called EXCEPT !.at = "raised", !.exception = outcome]

\* call_and_retry_on_network_error calls function.
CallFunction(outcome) ==
    /\ rpc.at = "call"
    /\ outcome = "socket.error" => networkErrors < MaxNetworkErrors
    /\ rpc' = call_function(rpc, outcome)
    /\ networkErrors' = IF outcome = "socket.error" THEN networkErrors + 1
                        ELSE networkErrors
    /\ UNCHANGED <<wpc, job, wlog>>
    /\ UNCHANGED strategyVars

\* time.sleep(random.randint(1, 3)) returns, and the loop goes on.
Sleep(seconds) ==
    /\ rpc.at = "sleep"
    /\ rpc' = [rpc EXCEPT !.sleeps = Append(@, seconds), !.at = "call"]
    /\ UNCHANGED <<wpc, job, wlog, networkErrors>>
    /\ UNCHANGED strategyVars

\* Ghost: a call made by Worker.run(), or the job getNextJob returned.
Event(event, j, result) == [event |-> event, job |-> j, result |-> result]

JobsReceived ==
    Cardinality({i \in DOMAIN wlog : wlog[i].event = "job" /\ wlog[i].job # NoJob})

\* Mutant: the loop of Worker.run() goes on when getNextJob returned None.
LoopContinuesAlways(j) == TRUE

\* The condition of the loop of Worker.run(): job != None.
LoopContinues(j) == j # NoJob

\* Worker.run(), line 93: getInstrumentsAndBars() is called.
WorkerRun ==
    /\ wpc = "start"
    /\ wpc' = "getInstrumentsAndBars"
    /\ rpc' = call_and_retry_on_network_error("getInstrumentsAndBars", <<>>,
                                              WorkerRetryCount)
    /\ wlog' = Append(wlog, Event("getInstrumentsAndBars", NoJob, NoResult))
    /\ UNCHANGED <<job, networkErrors>>
    /\ UNCHANGED strategyVars

\* Worker.run(), lines 96 and 99: the previous remote call returned, and
\* getNextJob() is called.
WorkerGetNextJob ==
    /\ wpc \in {"getInstrumentsAndBars", "pushJobResults"}
    /\ rpc.at = "returned"
    /\ wpc' = "getNextJob"
    /\ rpc' = call_and_retry_on_network_error("getNextJob", <<>>, WorkerRetryCount)
    /\ wlog' = Append(wlog, Event("getNextJob", NoJob, NoResult))
    /\ UNCHANGED <<job, networkErrors>>
    /\ UNCHANGED strategyVars

\* Worker.run(), line 97: getNextJob() returned j, and the loop condition is
\* evaluated.
WorkerNextJob(j) ==
    /\ wpc = "getNextJob"
    /\ rpc.at = "returned"
    /\ j # NoJob => JobsReceived < MaxJobs
    /\ job' = j
    /\ wlog' = Append(wlog, Event("job", j, NoResult))
    /\ wpc' = IF LoopContinues(j) THEN "processJob" ELSE "done"
    /\ rpc' = NoRpc
    /\ UNCHANGED networkErrors
    /\ UNCHANGED strategyVars

\* Worker.__processJob: runStrategy returns result, which is pushed with the
\* job's id; or runStrategy raises.
WorkerProcessJob(result, raises) ==
    /\ wpc = "processJob"
    /\ IF raises
       THEN /\ wpc' = "failed"
            /\ wlog' = Append(wlog, Event("runStrategy", job, NoResult))
            /\ UNCHANGED rpc
       ELSE /\ wpc' = "pushJobResults"
            /\ wlog' = wlog \o <<Event("runStrategy", job, result),
                                 Event("pushJobResults", job, result)>>
            /\ rpc' = call_and_retry_on_network_error("pushJobResults",
                                                      <<job, result>>,
                                                      WorkerRetryCount)
    /\ UNCHANGED <<job, networkErrors>>
    /\ UNCHANGED strategyVars

\* An exception leaves call_and_retry_on_network_error, and Worker.run() with it.
WorkerRaise ==
    /\ wpc \in {"getInstrumentsAndBars", "getNextJob", "pushJobResults"}
    /\ rpc.at = "raised"
    /\ wpc' = "failed"
    /\ UNCHANGED <<rpc, job, wlog, networkErrors>>
    /\ UNCHANGED strategyVars

\* No worker: the state of worker.py while a strategy alone is observed.
WorkerIdle ==
    /\ rpc = NoRpc
    /\ wpc = "none"
    /\ job = NoJob
    /\ wlog = <<>>
    /\ networkErrors = 0

\* -------------------------------------------------------------- the system
StrategyInit ==
    /\ orders = <<>>
    /\ positions = <<>>
    /\ activePositions = <<>>
    /\ orderToPosition = <<>>
    /\ pending = <<>>
    /\ toSettle = <<>>
    /\ pc = "start"
    /\ hook = NoHook
    /\ bars = <<>>
    /\ batchNo = 0
    /\ err = ""
    /\ trace = [onStart |-> 0, onFinish |-> 0, onBars |-> 0, brokerStarted |-> 0,
                brokerDone |-> 0, finishBars |-> 0, hooksInvoked |-> {}]
    /\ orderLog = <<>>
    /\ lastCall = NoCall
    /\ ret = NoRet

Init == StrategyInit /\ WorkerIdle

Next ==
    \/ RunStart
    \/ \E b \in BarsBatches : RunNextBars(b)
    \/ RunFeedExhausted
    \/ \E o \in {"fill", "cancel", "keep", "report"}, price \in FillPrices,
          commission \in FillCommissions : BrokerSettle(o, price, commission)
    \/ BrokerDone
    \/ HookReturn
    \/ \E i \in Instruments, q \in Quantities, g \in GoodTillCanceled : EnterLong(i, q, g)
    \/ \E i \in Instruments, q \in Quantities, g \in GoodTillCanceled : EnterShort(i, q, g)
    \/ \E p \in 1..MaxPositions, b \in ExitOnSessionClose : SetExitOnSessionClose(p, b)
    \/ \E p \in 1..MaxPositions : ExitPosition(p)
    \/ \E o \in 1..MaxOrders : CancelOrder(o)

Spec == Init /\ [][Next]_vars

\* ------------------------------------------------- getResult, getNetProfit
Error(call, p, message) ==
    [call |-> call, position |-> p, kind |-> "error", error |-> message,
     value |-> <<>>]

Value(call, p, v) ==
    [call |-> call, position |-> p, kind |-> "value", error |-> "", value |-> v]

\* getExecutionInfo() is None until the order is Filled: the Impl methods
\* raise AttributeError when they read a price from it.
HasExecutionInfo(st, p) ==
    /\ st.orders[getEntryOrder(st, p)].execInfo # <<>>
    /\ getExitOrder(st, p) # NoOrder
    /\ st.orders[getExitOrder(st, p)].execInfo # <<>>

entryPrice(st, p) == getPrice(st.orders[getEntryOrder(st, p)])
exitPrice(st, p) == getPrice(st.orders[getExitOrder(st, p)])
entryCommission(st, p) == getCommission(st.orders[getEntryOrder(st, p)])
exitCommission(st, p) == getCommission(st.orders[getExitOrder(st, p)])

\* utils.get_change_percentage(actual, prev): the change relative to prev, kept
\* exact as the fraction <<numerator, denominator>>.
get_change_percentage(actual, prev) == <<actual - prev, prev>>

\* Mutant: the short position's result is computed as the long one's.
getResultImplAsLong(st, p) ==
    get_change_percentage(exitPrice(st, p), entryPrice(st, p))

\* LongPosition.getResultImpl / ShortPosition.getResultImpl.
getResultImpl(st, p) ==
    IF st.positions[p].dir = "Long"
    THEN get_change_percentage(exitPrice(st, p), entryPrice(st, p))
    ELSE get_change_percentage(entryPrice(st, p), exitPrice(st, p))

\* LongPosition.getNetProfitImpl.
LongGetNetProfitImpl(st, p) ==
    LET ret0 == exitPrice(st, p) - entryPrice(st, p)
        ret1 == ret0 - entryCommission(st, p)
    IN ret1 - exitCommission(st, p)

\* Mutant: the short position's profit is computed as the long one's.
ShortGetNetProfitImplAsLong(st, p) ==
    LET ret0 == exitPrice(st, p) - entryPrice(st, p)
        ret1 == ret0 - entryCommission(st, p)
    IN ret1 - exitCommission(st, p)

\* ShortPosition.getNetProfitImpl.
ShortGetNetProfitImpl(st, p) ==
    LET ret0 == entryPrice(st, p) - exitPrice(st, p)
        ret1 == ret0 - entryCommission(st, p)
    IN ret1 - exitCommission(st, p)

getNetProfitImpl(st, p) ==
    IF st.positions[p].dir = "Long" THEN LongGetNetProfitImpl(st, p)
    ELSE ShortGetNetProfitImpl(st, p)

\* The first check of getResult and getNetProfit.
NotOpened(st, p) == ~isFilled(st.orders[getEntryOrder(st, p)])

\* Mutant: only a missing exit order counts as not closed.
NotClosedMissingOnly(st, p) == getExitOrder(st, p) = NoOrder

\* The second check of getResult and getNetProfit.
NotClosed(st, p) ==
    \/ getExitOrder(st, p) = NoOrder
    \/ ~isFilled(st.orders[getExitOrder(st, p)])

\* Position.getResult.
getResult(st, p) ==
    IF NotOpened(st, p) THEN Error("getResult", p, "Position not opened yet")
    ELSE IF NotClosed(st, p) THEN Error("getResult", p, "Position not closed yet")
    ELSE IF ~HasExecutionInfo(st, p) THEN Error("getResult", p, "AttributeError")
    ELSE Value("getResult", p, getResultImpl(st, p))

\* Position.getNetProfit.
getNetProfit(st, p) ==
    IF NotOpened(st, p) THEN Error("getNetProfit", p, "Position not opened yet")
    ELSE IF NotClosed(st, p) THEN Error("getNetProfit", p, "Position not closed yet")
    ELSE IF ~HasExecutionInfo(st, p) THEN Error("getNetProfit", p, "AttributeError")
    ELSE Value("getNetProfit", p, <<getNetProfitImpl(st, p)>>)

\* The user's code calls position.getResult(); an error is caught by the caller.
GetResult(p) ==
    /\ UserCode
    /\ p \in DOMAIN positions
    /\ ret' = getResult(State, p)
    /\ UNCHANGED <<orders, positions, activePositions, orderToPosition, pending,
                   toSettle, pc, hook, bars, batchNo, err, trace, orderLog,
                   lastCall>>
    /\ UNCHANGED workerVars

\* The user's code calls position.getNetProfit().
GetNetProfit(p) ==
    /\ UserCode
    /\ p \in DOMAIN positions
    /\ ret' = getNetProfit(State, p)
    /\ UNCHANGED <<orders, positions, activePositions, orderToPosition, pending,
                   toSettle, pc, hook, bars, batchNo, err, trace, orderLog,
                   lastCall>>
    /\ UNCHANGED workerVars

\* The quantities positions are entered with when their results are computed.
ResultQuantities == {1, 10}

\* The states of a position's two orders a run can produce: an exit order
\* fills only after the entry order, and without a gate it is placed only
\* after the entry order filled.
LegStates ==
    {<<e, x, gated>> \in {"Accepted", "Filled", "Canceled"}
                         \X {"None", "Accepted", "Filled", "Canceled"} \X BOOLEAN :
        /\ x = "Filled" => e = "Filled"
        /\ (x # "None" /\ ~gated) => e = "Filled"
        /\ x = "None" => ~gated}

Leg(order, state, price, commission) ==
    [order EXCEPT !.state = state,
                  !.execInfo = IF state = "Filled" THEN <<price, commission>> ELSE <<>>]

\* A strategy holding one position, inside the onBars hook of its first batch:
\* the position was entered from onStart and its exit order placed by the
\* session-close check or by exitPosition; the orders the broker resolved
\* have been notified.
InitPnL ==
    \E dir \in {"Long", "Short"}, legs \in LegStates, quantity \in ResultQuantities,
       ep \in Prices, xp \in Prices, ec \in Commissions, xc \in Commissions :
       LET entry == Leg(MarketOrder(IF dir = "Long" THEN "BUY" ELSE "SELL_SHORT",
                                    "X", quantity, FALSE, FALSE), legs[1], ep, ec)
           exit == Leg([MarketOrder(IF dir = "Long" THEN "SELL" ELSE "BUY",
                                    "X", quantity, FALSE, legs[3])
                            EXCEPT !.gate = IF legs[3] THEN 1 ELSE NoOrder],
                       legs[2], xp, xc)
           hasExit == legs[2] # "None"
           retired == legs[1] = "Canceled" \/ legs[2] \in {"Filled", "Canceled"}
           os == IF hasExit THEN <<entry, exit>> ELSE <<entry>>
       IN /\ legs[1] # "Filled" => ep = 1 /\ ec = 0
          /\ legs[2] # "Filled" => xp = 1 /\ xc = 0
          /\ orders = os
          /\ positions = <<[dir |-> dir, entryOrder |-> 1,
                            exitOrder |-> IF hasExit THEN 2 ELSE NoOrder,
                            exitOnSessionClose |-> legs[3]]>>
          /\ activePositions = IF retired THEN <<>> ELSE <<1>>
          /\ orderToPosition = IF retired THEN <<>>
                               ELSE [o \in DOMAIN os |-> 1]
          /\ pending = SelectSeq([o \in DOMAIN os |-> o], LAMBDA o : isAccepted(os[o]))
          /\ orderLog = IF hasExit
                        THEN <<[owner |-> NoPosition, entryFilledAtPlacement |-> FALSE,
                                onBarsBatch |-> 0],
                               [owner |-> 1, entryFilledAtPlacement |-> ~legs[3],
                                onBarsBatch |-> 0]>>
                        ELSE <<[owner |-> NoPosition, entryFilledAtPlacement |-> FALSE,
                                onBarsBatch |-> 0]>>
    /\ toSettle = <<>>
    /\ pc = "onBars"
    /\ hook = [name |-> "onBars", position |-> NoPosition]
    /\ bars = [i \in Instruments |-> TRUE]
    /\ batchNo = 1
    /\ err = ""
    /\ trace = [onStart |-> 1, onFinish |-> 0, onBars |-> 1, brokerStarted |-> 1,
                brokerDone |-> 1, finishBars |-> 0,
                hooksInvoked |->
                    {<<name, 1>> : name \in
                        {name \in {"onEnterOk", "onEnterCanceled", "onExitOk",
                                   "onExitCanceled"} :
                            \/ name = "onEnterOk" /\ isFilled(orders[1])
                            \/ name = "onEnterCanceled" /\ isCanceled(orders[1])
                            \/ /\ name = "onExitOk"
                               /\ Len(orders) = 2 /\ isFilled(orders[2])
                            \/ /\ name = "onExitCanceled"
                               /\ Len(orders) = 2 /\ isCanceled(orders[2])
                               /\ ~isCanceled(orders[1])}}]
    /\ lastCall = NoCall
    /\ ret = NoRet
    /\ WorkerIdle

NextPnL ==
    \/ \E p \in 1..MaxPositions : GetResult(p)
    \/ \E p \in 1..MaxPositions : GetNetProfit(p)

SpecPnL == InitPnL /\ [][NextPnL]_vars

\* --------------------------------------- call_and_retry_on_network_error
\* One call of call_and_retry_on_network_error, with any retry count up to
\* MaxRetryCount, of a function that may fail at every call.
InitRetry ==
    /\ StrategyInit
    /\ \E retryCount \in 0..MaxRetryCount :
          rpc = call_and_retry_on_network_error("function", <<>>, retryCount)
    /\ wpc = "call"
    /\ job = NoJob
    /\ wlog = <<>>
    /\ networkErrors = 0

NextRetry ==
    \/ \E outcome \in CallOutcomes : CallFunction(outcome)
    \/ \E seconds \in SleepSeconds : Sleep(seconds)

SpecRetry == InitRetry /\ [][NextRetry]_vars

\* ------------------------------------------------------------- Worker.run
InitWorker ==
    /\ StrategyInit
    /\ rpc = NoRpc
    /\ wpc = "start"
    /\ job = NoJob
    /\ wlog = <<>>
    /\ networkErrors = 0

NextWorker ==
    \/ WorkerRun
    \/ WorkerGetNextJob
    \/ \E j \in JobIds \cup {NoJob} : WorkerNextJob(j)
    \/ \E result \in StrategyResults, raises \in BOOLEAN :
          WorkerProcessJob(result, raises)
    \/ WorkerRaise
    \/ \E outcome \in CallOutcomes : CallFunction(outcome)
    \/ \E seconds \in SleepSeconds : Sleep(seconds)

SpecWorker == InitWorker /\ [][NextWorker]_vars

\* ================================================================== claims
EntryOf(p) == positions[p].entryOrder
ExitOf(p) == positions[p].exitOrder

\* C1: the broker has settled a batch before the onBars hook is invoked for it,
\* and an order placed by the onBars hook of the current batch stays pending,
\* unfilled, until a later batch.
C1_SettleBeforeOnBars ==
    /\ trace.onBars <= trace.brokerDone
    /\ hook.name = "onBars" =>
          /\ trace.brokerDone = batchNo
          /\ trace.onBars = batchNo
          /\ toSettle = <<>>
    /\ \A o \in DOMAIN orders :
          (batchNo > 0 /\ orderLog[o].onBarsBatch = batchNo) =>
              /\ o \in Range(pending)
              /\ o \notin Range(toSettle)
              /\ ~isFilled(orders[o])

\* C1 witness: an order placed by the onBars hook of one batch has been filled
\* against the next batch.
C1_Witness ==
    \E o \in DOMAIN orders :
        /\ orderLog[o].onBarsBatch > 0
        /\ batchNo = orderLog[o].onBarsBatch + 1
        /\ isFilled(orders[o])
        /\ hook.name = "onBars"

\* C2: every order in the order -> position index maps to a position that is
\* in the active-position list.
C2_IndexHoldsOnlyActive ==
    \A o \in DOMAIN orderToPosition :
        orderToPosition[o] \in Range(activePositions)

\* C2 witness: a notification hook runs for a position with an exit order that
\* was just retired.
C2_Witness ==
    /\ hook.name \in UnregisteringHooks
    /\ hook.position \notin Range(activePositions)
    /\ ExitOf(hook.position) # NoOrder
    /\ ExitOf(hook.position) \notin DOMAIN orderToPosition

\* C3: an exit order without a gate was placed when the position's entry order
\* was Filled, and a session-close exit order is gated on the entry order.
C3_ExitNeedsFilledEntryOrGate ==
    \A o \in DOMAIN orders :
        LET owner == orderLog[o].owner
        IN owner # NoPosition =>
              /\ orders[o].gate \in {NoOrder, EntryOf(owner)}
              /\ orders[o].gate = NoOrder => orderLog[o].entryFilledAtPlacement
              /\ orders[o].useClosingPrice => orders[o].gate = EntryOf(owner)

\* C3 witness: an exit order was placed before the entry order filled, gated
\* on it, and the entry order has been canceled meanwhile.
C3_Witness ==
    \E o \in DOMAIN orders :
        /\ orderLog[o].owner # NoPosition
        /\ ~orderLog[o].entryFilledAtPlacement
        /\ orders[o].gate = EntryOf(orderLog[o].owner)
        /\ ~isFilled(orders[EntryOf(orderLog[o].owner)])

\* The step is the session-close check of a batch that closes the session of
\* the instrument of p, an active position with auto-exit enabled, no exit
\* order and an entry order that is not Filled.
SessionCloseBeforeEntryFilled(p) ==
    /\ batchNo' = batchNo + 1
    /\ p \in Range(activePositions)
    /\ positions[p].exitOnSessionClose
    /\ ExitOf(p) = NoOrder
    /\ ~isFilled(orders[EntryOf(p)])
    /\ orders[EntryOf(p)].instrument \in DOMAIN bars'
    /\ bars'[orders[EntryOf(p)].instrument] = TRUE

\* C4 as stated: with auto-exit enabled and the entry order not Filled, the
\* session-closing batch places no exit order and the position stays active
\* with no exit order.
C4_NoExitPlacedBeforeEntryFilled ==
    [][\A p \in DOMAIN positions :
          SessionCloseBeforeEntryFilled(p) =>
              /\ Len(orders') = Len(orders)
              /\ positions'[p].exitOrder = NoOrder
              /\ p \in Range(activePositions')]_vars

\* C4 amended: with auto-exit enabled and the entry order not Filled, the
\* session-closing batch places an exit order gated on the entry order; it is
\* Accepted, indexed, and the position stays active with it as exit order.
C4_GatedExitPlacedBeforeEntryFilled ==
    [][\A p \in DOMAIN positions :
          SessionCloseBeforeEntryFilled(p) =>
              LET x == positions'[p].exitOrder
              IN /\ x \in DOMAIN orders' \ DOMAIN orders
                 /\ orders'[x].gate = EntryOf(p)
                 /\ orders'[x].useClosingPrice
                 /\ isAccepted(orders'[x])
                 /\ x \in Range(pending') \cup Range(toSettle')
                 /\ x \in DOMAIN orderToPosition' /\ orderToPosition'[x] = p
                 /\ p \in Range(activePositions')]_vars

\* C4 witness: the broker is settling a session-closing batch in which a gated
\* exit order was placed for a position whose entry order is still Accepted.
C4_Witness ==
    \E p \in DOMAIN positions :
        /\ pc = "broker"
        /\ ExitOf(p) # NoOrder
        /\ orders[ExitOf(p)].gate = EntryOf(p)
        /\ isAccepted(orders[EntryOf(p)])
        /\ isAccepted(orders[ExitOf(p)])
        /\ ExitOf(p) \in Range(toSettle)
        /\ p \in Range(activePositions)

\* C5 as stated: once a position has an exit order it keeps that order.
C5_ExitOrderNeverReplaced ==
    [][\A p \in DOMAIN positions :
          ExitOf(p) # NoOrder => positions'[p].exitOrder = ExitOf(p)]_vars

\* C5 amended: an exit order is replaced only by exitPosition, only when it is
\* Canceled and the entry order is Filled, and by a newly placed order; an
\* exit order that is Accepted or Filled is never replaced.
C5_ExitOrderReplacedOnlyWhenCanceled ==
    [][\A p \in DOMAIN positions :
          (ExitOf(p) # NoOrder /\ positions'[p].exitOrder # ExitOf(p)) =>
              /\ isCanceled(orders[ExitOf(p)])
              /\ isFilled(orders[EntryOf(p)])
              /\ lastCall' = [op |-> "exitPosition", position |-> p, branch |-> "close"]
              /\ positions'[p].exitOrder = Len(orders) + 1
              /\ Len(orders') = Len(orders) + 1]_vars

\* C5 witness: a position has an exit order other than the first one placed
\* for it.
C5_Witness ==
    \E p \in DOMAIN positions, o \in DOMAIN orders :
        /\ orderLog[o].owner = p
        /\ ExitOf(p) # NoOrder
        /\ o # ExitOf(p)
        /\ isCanceled(orders[o])

ExitPending(p) ==
    /\ ExitOf(p) # NoOrder
    /\ isAccepted(orders[ExitOf(p)]) \/ isFilled(orders[ExitOf(p)])

\* C6: exitPosition on a position whose exit order is Accepted or Filled
\* returns at once: no order is placed or canceled, and the position, the
\* active list, the index and the broker's lists are unchanged.
C6_ExitPositionIdempotent ==
    [][\A p \in DOMAIN positions :
          (ExitPending(p) /\ lastCall'.op = "exitPosition" /\ lastCall'.position = p) =>
              /\ lastCall'.branch = "noop"
              /\ UNCHANGED <<orders, positions, activePositions, orderToPosition,
                             pending, toSettle, orderLog, pc, hook, err>>]_vars

\* C6 witness: exitPosition has just returned early on a position whose exit
\* order is still Accepted.
C6_Witness ==
    /\ lastCall.op = "exitPosition"
    /\ lastCall.branch = "noop"
    /\ isAccepted(orders[ExitOf(lastCall.position)])

BothFilled(p) ==
    /\ isFilled(orders[EntryOf(p)])
    /\ ExitOf(p) # NoOrder
    /\ isFilled(orders[ExitOf(p)])

\* C7: getResult and getNetProfit return a value, the one of the direction's
\* implementation, exactly when the entry order is Filled and the exit order
\* exists and is Filled; otherwise they fail with the state error, and the
\* call leaves the position and its orders as they were.
C7_ResultNeedsBothLegsFilled ==
    [][ret' # ret =>
          LET p == ret'.position
          IN /\ ret'.call \in {"getResult", "getNetProfit"}
             /\ ret'.kind = "value" <=> BothFilled(p)
             /\ ret'.kind = "error" <=> ~BothFilled(p)
             /\ ~isFilled(orders[EntryOf(p)]) => ret'.error = "Position not opened yet"
             /\ (isFilled(orders[EntryOf(p)]) /\ ~BothFilled(p)) =>
                    ret'.error = "Position not closed yet"
             /\ (BothFilled(p) /\ ret'.call = "getResult") =>
                    ret'.value = getResultImpl(State, p)
             /\ (BothFilled(p) /\ ret'.call = "getNetProfit") =>
                    ret'.value = <<getNetProfitImpl(State, p)>>
             /\ UNCHANGED <<orders, positions, activePositions, orderToPosition,
                            pending>>]_vars

\* C7 witness: a call failed on a position whose entry order is Filled and
\* whose exit order is still Accepted.
C7_Witness ==
    /\ ret.kind = "error"
    /\ ret.error = "Position not closed yet"
    /\ ExitOf(ret.position) # NoOrder
    /\ isAccepted(orders[ExitOf(ret.position)])

\* C8: the net profit of a position with both orders Filled is the price
\* difference in the position's direction minus both commissions.
C8_NetProfitFormula ==
    (ret.call = "getNetProfit" /\ ret.kind = "value") =>
        LET p == ret.position
            entry == orders[EntryOf(p)].execInfo
            exit == orders[ExitOf(p)].execInfo
        IN ret.value =
              IF positions[p].dir = "Long"
              THEN <<exit[1] - entry[1] - entry[2] - exit[2]>>
              ELSE <<entry[1] - exit[1] - entry[2] - exit[2]>>

\* C8 witness: a short position entered at 3 and exited at 1 with a commission
\* of 1 on the entry has a net profit of 1.
C8_Witness ==
    /\ ret.call = "getNetProfit"
    /\ ret.kind = "value"
    /\ positions[ret.position].dir = "Short"
    /\ orders[EntryOf(ret.position)].execInfo = <<3, 1>>
    /\ orders[ExitOf(ret.position)].execInfo = <<1, 0>>
    /\ ret.value = <<1>>

\* C9: onStart is invoked once, before any batch; onFinish is invoked at most
\* once, only when the feed is exhausted after at least one batch, with the
\* last batch, after the broker and the onBars hook are done with that batch;
\* run() does not return normally without it.
C9_StartAndFinishOnce ==
    /\ trace.onStart = IF pc = "start" THEN 0 ELSE 1
    /\ hook.name = "onStart" => batchNo = 0 /\ trace.brokerStarted = 0
    /\ trace.onFinish = IF pc \in {"finish", "done"} THEN 1 ELSE 0
    /\ hook.name = "onFinish" <=> pc = "finish"
    /\ trace.onFinish = 1 =>
          /\ batchNo > 0
          /\ trace.finishBars = batchNo
          /\ trace.onBars = batchNo
          /\ trace.brokerStarted = batchNo
          /\ trace.brokerDone = batchNo
          /\ toSettle = <<>>

\* C9 witness: run() has returned after two batches or more, with orders placed.
C9_Witness ==
    /\ pc = "done"
    /\ batchNo >= 2
    /\ trace.onFinish = 1
    /\ orders # <<>>

\* C10: while the feed has yielded no batch, neither onFinish nor the broker's
\* onBars nor the onBars hook has been invoked, and run() can only end with
\* the empty-feed error; that error is raised in no other case.
C10_EmptyFeedFails ==
    /\ batchNo = 0 =>
          /\ trace.onFinish = 0
          /\ trace.onBars = 0
          /\ trace.brokerStarted = 0
          /\ pc \in {"start", "loop", "failed"}
          /\ pc = "failed" => err = "Feed was empty"
    /\ err = "Feed was empty" => batchNo = 0 /\ pc = "failed"

\* C10 witness: run() failed on an empty feed, after onStart placed an order.
C10_Witness ==
    /\ pc = "failed"
    /\ err = "Feed was empty"
    /\ batchNo = 0
    /\ trace.onStart = 1
    /\ orders # <<>>

\* C11: exitPosition on a position whose exit order is missing or Canceled and
\* whose entry order is not Filled cancels the entry order and nothing else:
\* no order is placed, and the position's exit order, the active list, the
\* index and the broker's lists are unchanged.
C11_ExitPositionCancelsUnfilledEntry ==
    [][\A p \in DOMAIN positions :
          (/\ lastCall'.op = "exitPosition" /\ lastCall'.position = p
           /\ ~ExitPending(p)
           /\ ~isFilled(orders[EntryOf(p)])) =>
              /\ lastCall'.branch = "cancelEntry"
              /\ isCanceled(orders'[EntryOf(p)])
              /\ DOMAIN orders' = DOMAIN orders
              /\ \A o \in DOMAIN orders : o # EntryOf(p) => orders'[o] = orders[o]
              /\ UNCHANGED <<positions, activePositions, orderToPosition, pending,
                             toSettle, orderLog, pc, hook, err>>]_vars

\* C11 witness: exitPosition has just canceled the entry order of a position
\* that is still active and has no exit order.
C11_Witness ==
    /\ lastCall.op = "exitPosition"
    /\ lastCall.branch = "cancelEntry"
    /\ isCanceled(orders[EntryOf(lastCall.position)])
    /\ ExitOf(lastCall.position) = NoOrder
    /\ lastCall.position \in Range(activePositions)
    /\ Len(orders) = 1

\* C12: the result of a position with both orders Filled is positive exactly
\* when the exit price is above the entry price for a long position and
\* below it for a short one, and zero exactly when the prices are equal.
C12_ResultSignFollowsDirection ==
    (ret.call = "getResult" /\ ret.kind = "value") =>
        LET p == ret.position
            entry == orders[EntryOf(p)].execInfo[1]
            exit == orders[ExitOf(p)].execInfo[1]
            numerator == ret.value[1]
            denominator == ret.value[2]
        IN /\ denominator > 0
           /\ numerator = 0 <=> exit = entry
           /\ positions[p].dir = "Long" => (numerator > 0 <=> exit > entry)
           /\ positions[p].dir = "Short" => (numerator > 0 <=> exit < entry)

\* C12 witness: a short position entered at 3 and exited at 1 has a positive
\* result.
C12_Witness ==
    /\ ret.call = "getResult"
    /\ ret.kind = "value"
    /\ positions[ret.position].dir = "Short"
    /\ orders[EntryOf(ret.position)].execInfo[1] = 3
    /\ orders[ExitOf(ret.position)].execInfo[1] = 1
    /\ ret.value[1] > 0

\* C13: call_and_retry_on_network_error calls the function at most n + 1
\* times; every call but the last raised socket.error, was made inside the
\* loop and was followed by a sleep; it returns on the first call that
\* succeeds; it raises on the first exception that is not socket.error, and
\* on socket.error only at call n + 1.
C13_RetryAtMostNPlusOne ==
    rpc.at # "none" =>
        LET calls == Len(rpc.outcomes)
        IN /\ calls <= rpc.n + 1
           /\ \A i \in 1..(calls - 1) : rpc.outcomes[i] = "socket.error" /\ i <= rpc.n
           /\ \A i \in DOMAIN rpc.sleeps : rpc.sleeps[i] \in SleepSeconds
           /\ rpc.at = "call" => Len(rpc.sleeps) = calls
           /\ rpc.at = "sleep" =>
                 /\ calls \in 1..rpc.n
                 /\ rpc.outcomes[calls] = "socket.error"
                 /\ Len(rpc.sleeps) = calls - 1
           /\ rpc.at = "returned" =>
                 /\ calls >= 1
                 /\ rpc.outcomes[calls] = "ok"
                 /\ Len(rpc.sleeps) = calls - 1
           /\ rpc.at = "raised" =>
                 /\ calls >= 1
                 /\ rpc.exception = rpc.outcomes[calls]
                 /\ rpc.exception # "ok"
                 /\ rpc.exception = "socket.error" => calls = rpc.n + 1
                 /\ Len(rpc.sleeps) = calls - 1

\* C13 witness: with a retry count of 3, three socket errors were swallowed,
\* each followed by a sleep, and the fourth propagated.
C13_Witness ==
    /\ rpc.at = "raised"
    /\ rpc.n = 3
    /\ rpc.exception = "socket.error"
    /\ Len(rpc.outcomes) = 4
    /\ Len(rpc.sleeps) = 3

\* The hook __onOrderUpdate invokes for order o of position p, once the
\* broker resolved o.
HookFor(o, p, ords) ==
    IF o = EntryOf(p)
    THEN IF isFilled(ords[o]) THEN "onEnterOk" ELSE "onEnterCanceled"
    ELSE IF isFilled(ords[o]) THEN "onExitOk" ELSE "onExitCanceled"

\* C14: when the broker notifies a position's exit order, Filled or Canceled,
\* or its Canceled entry order, the position has left the active list and both
\* its orders have left the index by the time onExitOk, onExitCanceled or
\* onEnterCanceled is invoked; when it notifies the Filled entry order,
\* onEnterOk is invoked and the active list and the index are as before.
C14_RetiredBeforeHookInvoked ==
    [][(pc = "broker" /\ toSettle # <<>> /\ toSettle' = Tail(toSettle)) =>
          LET o == Head(toSettle)
          IN /\ (/\ ~isAccepted(orders'[o])
                 /\ o \in DOMAIN orderToPosition
                 /\ o \in {EntryOf(orderToPosition[o]), ExitOf(orderToPosition[o])}) =>
                    /\ hook'.position = orderToPosition[o]
                    /\ hook'.name = HookFor(o, orderToPosition[o], orders')
                    /\ pc' = "broker"
             /\ hook'.name # "none" =>
                    LET p == hook'.position
                    IN /\ ~isAccepted(orders'[o])
                       /\ o \in {EntryOf(p), ExitOf(p)}
                       /\ hook'.name = HookFor(o, p, orders')
                       /\ hook'.name = "onEnterOk" =>
                             /\ p \in Range(activePositions')
                             /\ UNCHANGED <<activePositions, orderToPosition>>
                       /\ hook'.name \in {"onEnterCanceled", "onExitOk", "onExitCanceled"} =>
                             /\ p \notin Range(activePositions')
                             /\ EntryOf(p) \notin DOMAIN orderToPosition'
                             /\ ExitOf(p) \notin DOMAIN orderToPosition']_vars

\* C14 witness: onExitCanceled has just been invoked for a position that was
\* active with both orders indexed, and is retired now.
C14_Witness ==
    /\ hook.name = "onExitCanceled"
    /\ lastCall = NoCall
    /\ toSettle = <<>>
    /\ hook.position \notin Range(activePositions)
    /\ isFilled(orders[EntryOf(hook.position)])
    /\ isCanceled(orders[ExitOf(hook.position)])
    /\ orderToPosition = <<>>

\* The step invokes the onBars hook.
OnBarsInvoked == hook.name # "onBars" /\ hook'.name = "onBars"

\* C15 as stated: when the onBars hook is invoked, no active position has a
\* Canceled entry order or an exit order that is Filled or Canceled.
C15_NoTerminalLegActiveAtOnBars ==
    [][OnBarsInvoked =>
          \A p \in Range(activePositions') :
              /\ ~isCanceled(orders'[EntryOf(p)])
              /\ ExitOf(p) # NoOrder =>
                    /\ ~isFilled(orders'[ExitOf(p)])
                    /\ ~isCanceled(orders'[ExitOf(p)])]_vars

\* What the code keeps instead: when the onBars hook is invoked, no active
\* position has a Filled exit order, and a Canceled entry or exit order of an
\* active position is still in the broker's pending list: its cancellation
\* has not been notified yet.
C15_TerminalLegActiveOnlyUnnotified ==
    [][OnBarsInvoked =>
          \A p \in Range(activePositions') :
              /\ isCanceled(orders'[EntryOf(p)]) => EntryOf(p) \in Range(pending')
              /\ ExitOf(p) # NoOrder =>
                    /\ ~isFilled(orders'[ExitOf(p)])
                    /\ isCanceled(orders'[ExitOf(p)]) => ExitOf(p) \in Range(pending')]_vars

\* C15 witness: the onBars hook starts with an active position whose exit
\* order was canceled while the broker was settling the batch.
C15_Witness ==
    /\ hook.name = "onBars"
    /\ lastCall = NoCall
    /\ \E p \in Range(activePositions) :
          /\ ExitOf(p) # NoOrder
          /\ isCanceled(orders[ExitOf(p)])
          /\ orderLog[ExitOf(p)].onBarsBatch = 0
          /\ ExitOf(p) \in Range(pending)

Occurrences(s, x) == Cardinality({i \in DOMAIN s : s[i] = x})

\* C16: exitPosition on a position whose entry order is Filled and whose exit
\* order is missing or Canceled places a new market order in the opposite
\* direction with the broker and makes it the position's exit order;
\* afterwards the position is in the active list exactly once and the index
\* maps its entry order and the new exit order to it.
C16_ExitPositionPlacesAndRegisters ==
    [][\A p \in DOMAIN positions :
          (/\ lastCall'.op = "exitPosition" /\ lastCall'.position = p
           /\ isFilled(orders[EntryOf(p)])
           /\ ExitOf(p) = NoOrder \/ isCanceled(orders[ExitOf(p)])) =>
              LET x == Len(orders) + 1
              IN /\ lastCall'.branch = "close"
                 /\ Len(orders') = x
                 /\ \A o \in DOMAIN orders : orders'[o] = orders[o]
                 /\ isAccepted(orders'[x])
                 /\ orders'[x].action =
                        IF orders[EntryOf(p)].action = "BUY" THEN "SELL" ELSE "BUY"
                 /\ orders'[x].instrument = orders[EntryOf(p)].instrument
                 /\ orders'[x].quantity = orders[EntryOf(p)].quantity
                 /\ orders'[x].gate = NoOrder
                 /\ ~orders'[x].useClosingPrice
                 /\ pending' = Append(pending, x)
                 /\ positions' = [positions EXCEPT ![p].exitOrder = x]
                 /\ Occurrences(activePositions', p) = 1
                 /\ EntryOf(p) \in DOMAIN orderToPosition'
                 /\ orderToPosition'[EntryOf(p)] = p
                 /\ x \in DOMAIN orderToPosition'
                 /\ orderToPosition'[x] = p
                 /\ UNCHANGED <<pc, hook, err, toSettle>>]_vars

\* C16 witness: inside onExitCanceled, exitPosition has just placed a second
\* exit order for the position, which had been retired, and registered it
\* again.
C16_Witness ==
    /\ hook.name = "onExitCanceled"
    /\ lastCall = [op |-> "exitPosition", position |-> hook.position, branch |-> "close"]
    /\ LET p == hook.position
       IN /\ activePositions = <<p>>
          /\ ExitOf(p) = Len(orders)
          /\ isAccepted(orders[ExitOf(p)])
          /\ DOMAIN orderToPosition = {EntryOf(p), ExitOf(p)}
          /\ \E o \in DOMAIN orders :
                o # ExitOf(p) /\ orderLog[o].owner = p /\ isCanceled(orders[o])

\* C17: the session-close check of a batch places an exit order for an active
\* position, sets and indexes it, exactly when auto-exit is enabled, the
\* position has no exit order and the batch has a bar of its instrument that
\* closes the session; otherwise nothing is placed for the position and its
\* exit order stays as it was, and the check raises no error, also when the
\* batch has no bar of the instrument.
C17_SessionCloseExitIffCondition ==
    [][batchNo' = batchNo + 1 =>
          /\ pc' # "failed" /\ err' = err
          /\ activePositions' = activePositions
          /\ \A o \in DOMAIN orders : orders'[o] = orders[o]
          /\ \A p \in DOMAIN positions :
                LET instrument == orders[EntryOf(p)].instrument
                    signal == /\ p \in Range(activePositions)
                              /\ positions[p].exitOnSessionClose
                              /\ ExitOf(p) = NoOrder
                              /\ instrument \in DOMAIN bars'
                              /\ bars'[instrument] = TRUE
                    x == positions'[p].exitOrder
                IN /\ signal =>
                         /\ x \in DOMAIN orders' \ DOMAIN orders
                         /\ orders'[x].useClosingPrice
                         /\ orders'[x].gate = EntryOf(p)
                         /\ x \in DOMAIN orderToPosition'
                         /\ orderToPosition'[x] = p
                   /\ ~signal => x = ExitOf(p)
          /\ Len(orders') - Len(orders) =
                Cardinality({p \in DOMAIN positions : positions'[p].exitOrder # ExitOf(p)})
          /\ DOMAIN orderToPosition' =
                DOMAIN orderToPosition \cup (DOMAIN orders' \ DOMAIN orders)]_vars

\* C17 witness: a batch without a bar of the instrument went through the
\* session-close check of an active position with auto-exit enabled and no
\* exit order, and the broker is settling it.
C17_Witness ==
    /\ pc = "broker"
    /\ batchNo > 0
    /\ DOMAIN bars = {}
    /\ \E p \in Range(activePositions) :
          /\ positions[p].exitOnSessionClose
          /\ ExitOf(p) = NoOrder
          /\ EntryOf(p) \in Range(toSettle)

C19_WorkerRunSequence ==
    /\ wpc = "start" <=> wlog = <<>>
    /\ wpc = "done" => wlog[Len(wlog)] = Event("job", NoJob, NoResult)
    /\ \A i \in DOMAIN wlog :
          LET e == wlog[i]
              last == i = Len(wlog)
          IN /\ e.event = "getInstrumentsAndBars" <=> i = 1
             /\ e.event = "getNextJob" =>
                   /\ i = 2 \/ (i > 2 /\ wlog[i - 1].event = "pushJobResults")
                   /\ last => wpc \in {"getNextJob", "failed"}
             /\ e.event = "job" =>
                   /\ i > 1 /\ wlog[i - 1].event = "getNextJob"
                   /\ e.job = NoJob => last /\ wpc = "done"
                   /\ (e.job # NoJob /\ last) => wpc = "processJob" /\ job = e.job
             /\ e.event = "runStrategy" =>
                   /\ i > 1 /\ wlog[i - 1] = Event("job", e.job, NoResult)
                   /\ e.job # NoJob
                   /\ last => wpc = "failed" /\ e.result = NoResult
                   /\ ~last => wlog[i + 1] = Event("pushJobResults", e.job, e.result)
             /\ e.event = "pushJobResults" =>
                   /\ i > 1 /\ wlog[i - 1] = Event("runStrategy", e.job, e.result)
                   /\ e.result # NoResult
                   /\ last => /\ wpc \in {"pushJobResults", "failed"}
                              /\ rpc.function = "pushJobResults"
                              /\ rpc.parameters = <<e.job, e.result>>
                   /\ ~last => wlog[i + 1].event = "getNextJob"

\* C19 witness: the worker is done after two jobs with different ids, each
\* run and pushed once, a network error having been retried on the way.
C19_Witness ==
    /\ wpc = "done"
    /\ networkErrors > 0
    /\ Len(wlog) = 11
    /\ wlog[3].job # wlog[7].job
    /\ wlog[5] = Event("pushJobResults", wlog[3].job, "r1")
    /\ wlog[9] = Event("pushJobResults", wlog[7].job, "r2")

\* C20 as stated: every order the broker notifies as Filled or Canceled is in
\* the order -> position index, so the lookup of __onOrderUpdate never raises
\* KeyError.
C20_NotifiedOrderIsIndexed ==
    /\ err # "KeyError"
    /\ (pc = "broker" /\ hook.name = "none" /\ toSettle # <<>>
        /\ \/ isCanceled(orders[Head(toSettle)])
           \/ GateCanceled(orders[Head(toSettle)])) =>
           Head(toSettle) \in DOMAIN orderToPosition

\* C20 witness: run() has ended with KeyError; the position's entry order was
\* canceled, and its session-close exit order, gated on the entry order, was
\* canceled by the broker and notified after the position had been retired.
C20_Witness ==
    /\ pc = "failed"
    /\ err = "KeyError"
    /\ \E p \in DOMAIN positions :
          /\ isCanceled(orders[EntryOf(p)])
          /\ ExitOf(p) # NoOrder
          /\ orders[ExitOf(p)].gate = EntryOf(p)
          /\ isCanceled(orders[ExitOf(p)])
          /\ p \notin Range(activePositions)
          /\ lastCall = NoCall

\* C21 as stated: every order in the order -> position index is the entry
\* order or the current exit order of the position it maps to, so
\* __onOrderUpdate never reaches its final assert(False).
C21_IndexedOrderBelongsToPosition ==
    /\ err # "AssertionError"
    /\ \A o \in DOMAIN orderToPosition :
          o \in {EntryOf(orderToPosition[o]), ExitOf(orderToPosition[o])}

\* C21 witness: run() has ended with AssertionError on the notification of a
\* canceled exit order that exitPosition had replaced while the index still
\* held it.
C21_Witness ==
    /\ pc = "failed"
    /\ err = "AssertionError"
    /\ lastCall = NoCall
    /\ \E o \in DOMAIN orderToPosition :
          LET p == orderToPosition[o]
          IN /\ orderLog[o].owner = p
             /\ isCanceled(orders[o])
             /\ o \notin {EntryOf(p), ExitOf(p)}
             /\ isAccepted(orders[ExitOf(p)])
             /\ p \in Range(activePositions)

\* The step invokes the notification hook `name` for position p.
Invokes(name, p) ==
    /\ hook.name = "none"
    /\ hook' = [name |-> name, position |-> p]

Invoked(name, p) == <<name, p>> \in trace.hooksInvoked

\* C22: onExitOk is invoked for a position only after onEnterOk was invoked
\* for it, and once onEnterCanceled was invoked for a position none of
\* onEnterOk, onExitOk and onExitCanceled is invoked for it.
C22_HookOrderPerPosition ==
    [][\A p \in DOMAIN positions :
          /\ Invokes("onExitOk", p) => Invoked("onEnterOk", p)
          /\ \A name \in {"onEnterOk", "onExitOk", "onExitCanceled"} :
                Invokes(name, p) => ~Invoked("onEnterCanceled", p)
          /\ \A name \in {"onEnterOk", "onEnterCanceled", "onExitOk", "onExitCanceled"} :
                Invokes(name, p) => Invoked(name, p)']_vars

\* C22 witness: the entry order and the session-close exit order gated on it
\* were filled in the same batch, and onExitOk is running after onEnterOk.
C22_Witness ==
    /\ hook.name = "onExitOk"
    /\ LET p == hook.position
       IN /\ Invoked("onEnterOk", p)
          /\ Invoked("onExitOk", p)
          /\ orders[ExitOf(p)].gate = EntryOf(p)
          /\ isFilled(orders[ExitOf(p)])
          /\ batchNo = 1
====
